---- MODULE Spec2Model ----
(***************************************************************************)
(* Model of desktop-app/src-tauri/src/main.rs: the supervisor of the      *)
(* Hyperion backend process (start_hyperion_server, the setup hook's      *)
(* store into HyperionProcess, stop_hyperion_server), the host's          *)
(* lifecycle (setup, event loop, RunEvent::Exit) and the HTTP commands.   *)
(*                                                                         *)
(* Spec    : the application as main() wires it. Setup and the Exit       *)
(*           handler both run on the event-loop thread "main"; commands   *)
(*           run asynchronously beside it.                                *)
(* SpecApi : the same start/store and stop code called by concurrent      *)
(*           threads (one caller of start, several callers of stop), for  *)
(*           the statements about worst-case concurrent invocation.       *)
(***************************************************************************)
EXTENDS Integers, Sequences, FiniteSets, TLC

\* ------------------------------------------------------------------ bounds
MaxProcs == 2
MaxCmds == 2
MaxStopCalls == 2

Pids == 1..MaxProcs
CmdIds == 1..MaxCmds
NoChild == 0

Stoppers == {"s1", "s2"}
Threads == {"main"} \cup Stoppers

\* ------------------------------------------------------------------ state
VARIABLES
    mode,       \* cfg!(debug_assertions): "Development" or "Packaged"
    windows,    \* cfg!(target_os = "windows")
    env,        \* what the collaborators answer: cwd, resource dir, files
    phase,      \* the host's lifecycle
    pc,         \* each thread's position in setup / start / stop
    local,      \* each thread's local Child (start's `child`, stop's `child`)
    ret,        \* each thread's Result of start_hyperion_server
    cell,       \* HyperionProcess.0 : Option<Child>
    lock,       \* holder of the Mutex, or "free"
    proc,       \* OS process table entry of each pid
    kills,      \* kill requests sent to each pid
    waits,      \* wait calls made on each pid
    call,       \* per thread: the current stop call's record
    cmds,       \* the command invocations in flight
    cmd,        \* each thread's Command as start has built it (program, arguments)
    log,        \* the lines printed so far (println!, eprintln!), by kind
    discarded,  \* the collaborator errors the code has dropped without a trace
    probe       \* the last application of a pure function: input and output

vars == <<mode, windows, env, phase, pc, local, ret, cell, lock, proc, kills,
          waits, call, cmds, cmd, log, discarded, probe>>

supervisorVars == <<cell, lock, proc, kills, waits, local, ret, pc, call>>

\* ------------------------------------------------------------------ paths
\* A PathBuf is the sequence of its components.
CwdRepo == <<"repo", "desktop-app">>
CwdRoot == << >>
ResourceDir == <<"app", "resources">>

\* PathBuf::pop: drops the last component; a path without parent is unchanged.
Pop(p) == IF Len(p) > 0 THEN SubSeq(p, 1, Len(p) - 1) ELSE p

\* PathBuf::push / join of one relative component.
Push(p, c) == Append(p, c)

Ok(p) == [ok |-> TRUE, path |-> p]
NotResolvable == [ok |-> FALSE, path |-> << >>]

\* get_hyper_binary_path
get_hyper_binary_path(m, win, e) ==
    IF m = "Development"
    THEN IF e.cwd.ok
         THEN Ok(Push(Push(Pop(e.cwd.path), "bin"), "hyper"))
         ELSE NotResolvable
    ELSE IF e.res.ok
         THEN Ok(Push(e.res.path, IF win THEN "hyper.exe" ELSE "hyper"))
         ELSE NotResolvable

\* get_env_path
get_env_path(m, win, e) ==
    IF m = "Development"
    THEN IF e.cwd.ok
         THEN Ok(Push(Push(Pop(e.cwd.path), "bin"), ".env.hyper"))
         ELSE NotResolvable
    ELSE IF e.res.ok
         THEN Ok(Push(e.res.path, ".env.hyper"))
         ELSE NotResolvable

\* Path::exists against the file system of the environment.
Exists(e, p) == p \in e.fs

\* The installations the model runs against: nothing on disk, the binaries
\* without a config file, the binaries with it, a config file alone.
Binaries ==
    { <<"repo", "bin", "hyper">>, <<"bin", "hyper">>,
      <<"app", "resources", "hyper">>, <<"app", "resources", "hyper.exe">> }
Configs ==
    { <<"repo", "bin", ".env.hyper">>, <<"bin", ".env.hyper">>,
      <<"app", "resources", ".env.hyper">> }
FileSystems == { {}, Binaries, Binaries \cup Configs, Configs }

Envs ==
    [ cwd : {NotResolvable, Ok(CwdRepo), Ok(CwdRoot)},
      res : {NotResolvable, Ok(ResourceDir)},
      fs  : FileSystems ]

\* ------------------------------------------------------------------ results
NoResult == [tag |-> "none", path |-> << >>]
StartOk == [tag |-> "Ok", path |-> << >>]
\* Err(e.to_string()) of the path resolution
ErrNotResolvable == [tag |-> "NotResolvable", path |-> << >>]
\* Err(format!("Hyperion binary not found at {:?}", binary_path))
ErrBinaryNotFound(p) == [tag |-> "BinaryNotFound", path |-> p]
\* Err(format!("Failed to start Hyperion server: {}", e))
ErrSpawnFailed == [tag |-> "SpawnFailed", path |-> << >>]

NoCall == [n |-> 0, began |-> {}, held |-> {}, empty |-> FALSE]

\* No Command built yet; nothing applied yet.
NoCommand == << >>
NoProbe == [fn |-> "none", in |-> << >>, out |-> << >>]

\* The pids the OS has handed out so far.
Spawned == {p \in Pids : proc[p] # "unborn"}
\* Spawned and not yet reaped.
Live == {p \in Pids : proc[p] \in {"alive", "zombie"}}

\* ------------------------------------------------------------------ start
\* let binary_path = get_hyper_binary_path(app_handle)?;
StartResolve(t) ==
    /\ pc[t] = "start_resolve"
    /\ IF get_hyper_binary_path(mode, windows, env).ok
       THEN /\ pc' = [pc EXCEPT ![t] = "start_exists"]
            /\ ret' = ret
       ELSE /\ pc' = [pc EXCEPT ![t] = "start_ret"]
            /\ ret' = [ret EXCEPT ![t] = ErrNotResolvable]
    /\ UNCHANGED <<cmd, log, discarded, probe, mode, windows, env, phase, local, cell, lock, proc, kills,
                   waits, call, cmds>>

\* The check left out: the spawn is attempted whatever is on disk.
StartExistsUnchecked(t) ==
    /\ pc[t] = "start_exists"
    /\ pc' = [pc EXCEPT ![t] = "start_env"]
    /\ UNCHANGED <<cmd, log, discarded, probe, mode, windows, env, phase, local, ret, cell, lock, proc,
                   kills, waits, call, cmds>>

\* if !binary_path.exists() { return Err(...) }
StartExists(t) ==
    /\ pc[t] = "start_exists"
    /\ LET b == get_hyper_binary_path(mode, windows, env).path IN
       IF Exists(env, b)
       THEN /\ pc' = [pc EXCEPT ![t] = "start_env"]
            /\ ret' = ret
            /\ log' = log \cup {"Starting"}
       ELSE /\ pc' = [pc EXCEPT ![t] = "start_ret"]
            /\ ret' = [ret EXCEPT ![t] = ErrBinaryNotFound(b)]
            /\ log' = log
    /\ UNCHANGED <<cmd, discarded, probe, mode, windows, env, phase, local, cell, lock, proc, kills,
                   waits, call, cmds>>

\* let mut cmd = Command::new(&binary_path); cmd.arg("--mode=http");
Command(binary_path) == <<binary_path, "--mode=http">>

\* What the two println! branches on the config file print.
ConfigReport(e, env_path) ==
    IF ~env_path.ok THEN {}
    ELSE IF Exists(e, env_path.path) THEN {"Using config file"}
    ELSE {"Warning: .env.hyper not found"}

\* The config file is handed to the child as an argument when it is there.
StartEnvConfigArg(t) ==
    /\ pc[t] = "start_env"
    /\ LET env_path == get_env_path(mode, windows, env) IN
         /\ discarded' = IF env_path.ok THEN discarded
                         ELSE discarded \cup {"config path"}
         /\ log' = log \cup ConfigReport(env, env_path)
         /\ cmd' = [cmd EXCEPT ![t] =
                      IF env_path.ok /\ Exists(env, env_path.path)
                      THEN Command(get_hyper_binary_path(mode, windows, env).path)
                             \o <<env_path.path>>
                      ELSE Command(get_hyper_binary_path(mode, windows, env).path)]
    /\ pc' = [pc EXCEPT ![t] = "start_spawn"]
    /\ UNCHANGED <<probe, mode, windows, env, phase, local, ret, cell, lock, proc,
                   kills, waits, call, cmds>>

\* let env_path = get_env_path(app_handle).ok();  the error of the lookup is
\* dropped by ok().  Command::new(&binary_path) and arg("--mode=http"); then
\* the two println! branches.  The config path is only looked at and reported,
\* never handed to the child.
StartEnv(t) ==
    /\ pc[t] = "start_env"
    /\ LET env_path == get_env_path(mode, windows, env) IN
         /\ discarded' = IF env_path.ok THEN discarded
                         ELSE discarded \cup {"config path"}
         /\ log' = log \cup ConfigReport(env, env_path)
    /\ cmd' = [cmd EXCEPT ![t] =
                 Command(get_hyper_binary_path(mode, windows, env).path)]
    /\ pc' = [pc EXCEPT ![t] = "start_spawn"]
    /\ UNCHANGED <<probe, mode, windows, env, phase, local, ret, cell, lock, proc,
                   kills, waits, call, cmds>>

\* The outcomes of Command::spawn: a file that is not there cannot be launched,
\* one that is there may still fail to launch, and the process table may be full.
SpawnOutcomes(t) ==
    IF /\ Exists(env, get_hyper_binary_path(mode, windows, env).path)
       /\ \E p \in Pids : proc[p] = "unborn"
    THEN {TRUE, FALSE}
    ELSE {FALSE}

\* cmd.stdout(..).stderr(..).spawn().map_err(..)?; Ok(child)
StartSpawn(t) ==
    /\ pc[t] = "start_spawn"
    /\ \E ok \in SpawnOutcomes(t) :
         IF ok
         THEN LET p == CHOOSE q \in Pids :
                         /\ proc[q] = "unborn"
                         /\ \A r \in Pids : proc[r] = "unborn" => q <= r
              IN /\ proc' = [proc EXCEPT ![p] = "alive"]
                 /\ local' = [local EXCEPT ![t] = p]
                 /\ ret' = [ret EXCEPT ![t] = StartOk]
                 /\ log' = log \cup {"started with PID"}
         ELSE /\ ret' = [ret EXCEPT ![t] = ErrSpawnFailed]
              /\ UNCHANGED <<proc, local, log>>
    /\ pc' = [pc EXCEPT ![t] = "start_ret"]
    /\ UNCHANGED <<cmd, discarded, probe, mode, windows, env, phase, cell, lock, kills, waits, call,
                   cmds>>

\* ------------------------------------------------------------------ setup hook
\* The mode is not looked at: the server is started in development too.
SetupBeginAlways(t) ==
    /\ pc[t] = "setup_begin"
    /\ pc' = [pc EXCEPT ![t] = "start_resolve"]
    /\ UNCHANGED <<cmd, log, discarded, probe, mode, windows, env, phase, local, ret, cell, lock, proc,
                   kills, waits, call, cmds>>

\* if !cfg!(debug_assertions) { match start_hyperion_server(..) } else { println! }
SetupBegin(t) ==
    /\ pc[t] = "setup_begin"
    /\ pc' = [pc EXCEPT ![t] =
                IF mode = "Development" THEN "setup_done" ELSE "start_resolve"]
    /\ log' = IF mode = "Development" THEN log \cup {"Development mode"} ELSE log
    /\ UNCHANGED <<cmd, discarded, probe, mode, windows, env, phase, local, ret, cell, lock, proc,
                   kills, waits, call, cmds>>

\* The error arm only reports and lets setup go on.
SetupMatchSwallow(t) ==
    /\ pc[t] = "start_ret"
    /\ pc' = [pc EXCEPT ![t] =
                IF ret[t].tag = "Ok" THEN "setup_store" ELSE "setup_done"]
    /\ UNCHANGED <<cmd, log, discarded, probe, mode, windows, env, phase, local, ret, cell, lock, proc,
                   kills, waits, call, cmds>>

\* match start_hyperion_server(..) { Ok(child) => .., Err(e) => return Err(e.into()) }
SetupMatch(t) ==
    /\ pc[t] = "start_ret"
    /\ pc' = [pc EXCEPT ![t] =
                IF ret[t].tag = "Ok" THEN "setup_store" ELSE "setup_err"]
    /\ log' = IF ret[t].tag = "Ok" THEN log ELSE log \cup {"Failed to start"}
    /\ UNCHANGED <<cmd, discarded, probe, mode, windows, env, phase, local, ret, cell, lock, proc,
                   kills, waits, call, cmds>>

\* The child is dropped instead of stored.
SetupStoreDropped(t) ==
    /\ pc[t] = "setup_store"
    /\ lock = "free"
    /\ local' = [local EXCEPT ![t] = NoChild]
    /\ pc' = [pc EXCEPT ![t] = "setup_sleep"]
    /\ UNCHANGED <<cmd, log, discarded, probe, mode, windows, env, phase, ret, cell, lock, proc, kills,
                   waits, call, cmds>>

\* *process_state.0.lock().unwrap() = Some(child);
\* The guard lives for this one statement: lock, assign (the old value is
\* dropped, which does not kill it), unlock.
SetupStore(t) ==
    /\ pc[t] = "setup_store"
    /\ lock = "free"
    /\ cell' = local[t]
    /\ local' = [local EXCEPT ![t] = NoChild]
    /\ log' = log \cup {"started successfully"}
    /\ pc' = [pc EXCEPT ![t] = "setup_sleep"]
    /\ UNCHANGED <<cmd, discarded, probe, mode, windows, env, phase, ret, lock, proc, kills, waits,
                   call, cmds>>

\* The wait for readiness launches the server again.
SetupSleepRespawn(t) ==
    /\ pc[t] = "setup_sleep"
    /\ pc' = [pc EXCEPT ![t] =
                IF \E p \in Pids : proc[p] = "unborn"
                THEN "start_resolve" ELSE "setup_done"]
    /\ UNCHANGED <<cmd, log, discarded, probe, mode, windows, env, phase, local, ret, cell, lock, proc,
                   kills, waits, call, cmds>>

\* std::thread::sleep(Duration::from_secs(5)); then Ok(())
SetupSleep(t) ==
    /\ pc[t] = "setup_sleep"
    /\ pc' = [pc EXCEPT ![t] = "setup_done"]
    /\ UNCHANGED <<cmd, log, discarded, probe, mode, windows, env, phase, local, ret, cell, lock, proc,
                   kills, waits, call, cmds>>


\* ------------------------------------------------------------------ stop
\* The processes the supervisor holds: the one in the cell, and the ones a
\* stop has taken out of it and not yet let go.
Held ==
    ({cell} \cup {local[s] : s \in {u \in Threads :
                       pc[u] \in {"stop_kill", "stop_wait", "stop_unlock"}}})
      \ {NoChild}

\* Entering stop_hyperion_server: the call's record starts afresh.
BeginStop(t) ==
    [call EXCEPT ![t] = [n |-> call[t].n + 1, began |-> Spawned, held |-> Held,
                         empty |-> FALSE]]

\* let mut child_opt = process.lock().unwrap();
StopLock(t) ==
    /\ pc[t] = "stop_lock"
    /\ lock = "free"
    /\ lock' = t
    /\ pc' = [pc EXCEPT ![t] = "stop_take"]
    /\ UNCHANGED <<cmd, log, discarded, probe, mode, windows, env, phase, local, ret, cell, proc, kills,
                   waits, call, cmds>>

\* The handle is borrowed (as_mut) instead of taken: the cell keeps it.
StopTakeBorrow(t) ==
    /\ pc[t] = "stop_take"
    /\ lock = t
    /\ IF cell # NoChild
       THEN /\ local' = [local EXCEPT ![t] = cell]
            /\ pc' = [pc EXCEPT ![t] = "stop_kill"]
            /\ call' = call
       ELSE /\ pc' = [pc EXCEPT ![t] = "stop_unlock"]
            /\ call' = [call EXCEPT ![t].empty = TRUE]
            /\ local' = local
    /\ UNCHANGED <<cmd, log, discarded, probe, mode, windows, env, phase, ret, cell, lock, proc, kills,
                   waits, cmds>>

\* The handle is unwrapped (take().unwrap()): an empty cell panics, and the
\* unwinding guard releases the lock.
StopTakeUnwrap(t) ==
    /\ pc[t] = "stop_take"
    /\ lock = t
    /\ IF cell # NoChild
       THEN /\ local' = [local EXCEPT ![t] = cell]
            /\ pc' = [pc EXCEPT ![t] = "stop_kill"]
            /\ UNCHANGED <<call, lock>>
       ELSE /\ pc' = [pc EXCEPT ![t] = "panicked"]
            /\ call' = [call EXCEPT ![t].empty = TRUE]
            /\ lock' = "free"
            /\ local' = local
    /\ cell' = NoChild
    /\ UNCHANGED <<cmd, log, discarded, probe, mode, windows, env, phase, ret, proc, kills, waits, cmds>>

\* The guard is dropped right after the take: kill and wait run unlocked.
StopTakeReleasing(t) ==
    /\ pc[t] = "stop_take"
    /\ lock = t
    /\ IF cell # NoChild
       THEN /\ local' = [local EXCEPT ![t] = cell]
            /\ pc' = [pc EXCEPT ![t] = "stop_kill"]
            /\ call' = call
            /\ log' = log \cup {"Stopping"}
            /\ lock' = "free"
       ELSE /\ pc' = [pc EXCEPT ![t] = "stop_unlock"]
            /\ call' = [call EXCEPT ![t].empty = TRUE]
            /\ UNCHANGED <<local, log, lock>>
    /\ cell' = NoChild
    /\ UNCHANGED <<cmd, discarded, probe, mode, windows, env, phase, ret, proc, kills, waits,
                   cmds>>

\* if let Some(mut child) = child_opt.take() { .. }
StopTake(t) ==
    /\ pc[t] = "stop_take"
    /\ lock = t
    /\ IF cell # NoChild
       THEN /\ local' = [local EXCEPT ![t] = cell]
            /\ pc' = [pc EXCEPT ![t] = "stop_kill"]
            /\ call' = call
            /\ log' = log \cup {"Stopping"}
       ELSE /\ pc' = [pc EXCEPT ![t] = "stop_unlock"]
            /\ call' = [call EXCEPT ![t].empty = TRUE]
            /\ UNCHANGED <<local, log>>
    /\ cell' = NoChild
    /\ UNCHANGED <<cmd, discarded, probe, mode, windows, env, phase, ret, lock, proc, kills, waits,
                   cmds>>

\* let _ = child.kill();  The request may fail; its result is discarded.
StopKill(t) ==
    /\ pc[t] = "stop_kill"
    /\ \E ok \in BOOLEAN :
         /\ proc' = IF ok /\ proc[local[t]] = "alive"
                    THEN [proc EXCEPT ![local[t]] = "zombie"]
                    ELSE proc
         /\ discarded' = IF ok THEN discarded ELSE discarded \cup {"kill"}
    /\ kills' = [kills EXCEPT ![local[t]] = @ + 1]
    /\ pc' = [pc EXCEPT ![t] = "stop_wait"]
    /\ UNCHANGED <<cmd, log, probe, mode, windows, env, phase, local, ret, cell, lock, waits,
                   call, cmds>>

\* The wait left out: stop returns as soon as the kill has been requested.
StopWaitSkipped(t) ==
    /\ pc[t] = "stop_wait"
    /\ pc' = [pc EXCEPT ![t] = "stop_unlock"]
    /\ UNCHANGED <<cmd, log, discarded, probe, mode, windows, env, phase, local, ret, cell, lock, proc,
                   kills, waits, call, cmds>>

\* let _ = child.wait();  Blocks until the process has exited, then reaps it;
\* on a process already reaped it returns an error at once.
StopWait(t) ==
    /\ pc[t] = "stop_wait"
    /\ proc[local[t]] \in {"zombie", "reaped"}
    /\ proc' = [proc EXCEPT ![local[t]] = "reaped"]
    /\ waits' = [waits EXCEPT ![local[t]] = @ + 1]
    /\ discarded' = IF proc[local[t]] = "reaped"
                    THEN discarded \cup {"wait"} ELSE discarded
    /\ log' = log \cup {"stopped"}
    /\ pc' = [pc EXCEPT ![t] = "stop_unlock"]
    /\ UNCHANGED <<cmd, probe, mode, windows, env, phase, local, ret, cell, lock, kills,
                   call, cmds>>

\* End of the function: child and then the guard go out of scope.
StopUnlock(t) ==
    /\ pc[t] = "stop_unlock"
    /\ lock = t
    /\ lock' = "free"
    /\ local' = [local EXCEPT ![t] = NoChild]
    /\ pc' = [pc EXCEPT ![t] = "stop_ret"]
    /\ UNCHANGED <<cmd, log, discarded, probe, mode, windows, env, phase, ret, cell, proc, kills, waits,
                   call, cmds>>

\* The backend exits on its own (a crash, a fatal configuration error).
ChildExits(p) ==
    /\ proc[p] = "alive"
    /\ proc' = [proc EXCEPT ![p] = "zombie"]
    /\ UNCHANGED <<cmd, log, discarded, probe, mode, windows, env, phase, pc, local, ret, cell, lock,
                   kills, waits, call, cmds>>


\* ------------------------------------------------------------------ commands
CommandNames ==
    { "check_server_health", "call_mcp_tool", "create_human_task",
      "create_agent_task", "list_human_tasks", "list_agent_tasks",
      "update_task_status", "upsert_knowledge", "query_knowledge" }

Statuses == {200, 500}
\* Only 200 counts as success.
is_success_200_only(s) == s = 200

\* StatusCode::is_success
is_success(s) == 200 <= s /\ s <= 299

\* What reqwest's send().await yields: a transport error, or a response with a
\* status and a body that is JSON or not.
TransportError == [sent |-> FALSE, status |-> 0, json |-> FALSE]
HttpOutcomes ==
    {TransportError} \cup [sent : {TRUE}, status : Statuses, json : BOOLEAN]

NoCmdResult == [ok |-> FALSE, tag |-> "none", status |-> 0]
\* A slot: its state, the function performing the exchange, the requests that
\* function has sent, the response it got and the Result it returned.
IdleCmd ==
    [st |-> "idle", fn |-> "none", n |-> 0, resp |-> TransportError,
     result |-> NoCmdResult]

\* get_server_url
get_server_url == [ok |-> TRUE, tag |-> "http://localhost:7095/ui", status |-> 0]

\* check_server_health
check_server_health(r) ==
    IF r.sent
    THEN IF is_success(r.status)
         THEN [ok |-> TRUE, tag |-> "healthy", status |-> 0]
         ELSE [ok |-> FALSE, tag |-> "Server returned status", status |-> r.status]
    ELSE [ok |-> FALSE, tag |-> "Health check failed", status |-> 0]

\* call_mcp_tool, to which every typed wrapper delegates
call_mcp_tool(r) ==
    IF r.sent
    THEN IF is_success(r.status)
         THEN IF r.json
              THEN [ok |-> TRUE, tag |-> "json", status |-> 0]
              ELSE [ok |-> FALSE, tag |-> "decode error", status |-> 0]
         ELSE [ok |-> FALSE, tag |-> "MCP tool call failed", status |-> r.status]
    ELSE [ok |-> FALSE, tag |-> "Failed to call MCP tool", status |-> 0]

\* The function that performs a command's exchange: check_server_health its
\* own, call_mcp_tool its own, and each typed wrapper builds its arguments and
\* then awaits call_mcp_tool.
Exchange(name) ==
    IF name = "check_server_health" THEN "check_server_health" ELSE "call_mcp_tool"

CommandResult(fn, r) ==
    IF fn = "check_server_health" THEN check_server_health(r)
    ELSE call_mcp_tool(r)

\* The synchronous command: answered on the spot.
CmdGetServerUrl(c) ==
    /\ phase = "running"
    /\ cmds[c].st = "idle"
    /\ cmds' = [cmds EXCEPT ![c] = [IdleCmd EXCEPT !.result = get_server_url]]
    /\ UNCHANGED <<cmd, log, discarded, probe, mode, windows, env, phase, pc, local, ret, cell, lock, proc,
                   kills, waits, call>>

\* The webview invokes an async command: its request is on the wire.
CmdInvoke(c, name) ==
    /\ phase = "running"
    /\ cmds[c].st = "idle"
    /\ cmds' = [cmds EXCEPT ![c] =
                  [st |-> "inflight", fn |-> Exchange(name), n |-> 1,
                   resp |-> TransportError, result |-> NoCmdResult]]
    /\ UNCHANGED <<cmd, log, discarded, probe, mode, windows, env, phase, pc, local, ret, cell, lock, proc,
                   kills, waits, call>>

\* A failed command takes the supervised process down with it.
CmdCompleteStopping(c, r) ==
    /\ phase \in {"running", "exiting"}
    /\ cmds[c].st = "inflight"
    /\ cmds' = [cmds EXCEPT ![c] =
                  [cmds[c] EXCEPT !.st = "idle", !.resp = r,
                                  !.result = CommandResult(cmds[c].fn, r)]]
    /\ cell' = IF CommandResult(cmds[c].fn, r).ok \/ lock # "free"
               THEN cell ELSE NoChild
    /\ UNCHANGED <<cmd, log, discarded, probe, mode, windows, env, phase, pc, local, ret, lock, proc,
                   kills, waits, call>>

\* A transport failure is answered by sending the request once more.
CmdCompleteRetry(c, r) ==
    /\ phase \in {"running", "exiting"}
    /\ cmds[c].st = "inflight"
    /\ cmds' = [cmds EXCEPT ![c] =
                  IF ~r.sent /\ cmds[c].n < 2
                  THEN [cmds[c] EXCEPT !.n = @ + 1]
                  ELSE [cmds[c] EXCEPT !.st = "idle", !.resp = r,
                                       !.result = CommandResult(cmds[c].fn, r)]]
    /\ UNCHANGED <<cmd, log, discarded, probe, mode, windows, env, phase, pc,
                   local, ret, cell, lock, proc, kills, waits, call>>

\* The exchange ends and the command returns its Result to the webview.
CmdComplete(c, r) ==
    /\ phase \in {"running", "exiting"}
    /\ cmds[c].st = "inflight"
    /\ cmds' = [cmds EXCEPT ![c] =
                  [cmds[c] EXCEPT !.st = "idle", !.resp = r,
                                  !.result = CommandResult(cmds[c].fn, r)]]
    /\ UNCHANGED <<cmd, log, discarded, probe, mode, windows, env, phase, pc, local, ret, cell, lock, proc,
                   kills, waits, call>>

\* ------------------------------------------------------------------ host
\* The event loop is ready: the host runs the setup hook.
Ready ==
    /\ phase = "built"
    /\ pc["main"] = "boot"
    /\ phase' = "setup"
    /\ pc' = [pc EXCEPT !["main"] = "setup_begin"]
    /\ UNCHANGED <<cmd, log, discarded, probe, mode, windows, env, local, ret, cell, lock, proc, kills,
                   waits, call, cmds>>

\* Setup returned Ok(()): the application serves its windows and commands.
SetupFinish ==
    /\ phase = "setup"
    /\ pc["main"] = "setup_done"
    /\ phase' = "running"
    /\ pc' = [pc EXCEPT !["main"] = "loop"]
    /\ UNCHANGED <<cmd, log, discarded, probe, mode, windows, env, local, ret, cell, lock, proc, kills,
                   waits, call, cmds>>

\* Setup returned Err: the host fails the launch (its panic on a failed setup,
\* or build's Err met by .expect("error while running tauri application")) and
\* the host process ends without the Exit event.
SetupAbort ==
    /\ phase = "setup"
    /\ pc["main"] = "setup_err"
    /\ phase' = "aborted"
    /\ pc' = [pc EXCEPT !["main"] = "dead"]
    /\ UNCHANGED <<cmd, log, discarded, probe, mode, windows, env, local, ret, cell, lock, proc, kills,
                   waits, call, cmds>>

\* .on_window_event: every window event is let through untouched.
WindowEvent ==
    /\ phase = "running"
    /\ pc["main"] = "loop"
    /\ UNCHANGED vars

\* The exit event ends the application without stopping the server.
ExitEventNoStop ==
    /\ phase = "running"
    /\ pc["main"] = "loop"
    /\ phase' = "exited"
    /\ pc' = [pc EXCEPT !["main"] = "dead"]
    /\ UNCHANGED <<cmd, log, discarded, probe, mode, windows, env, local, ret, cell, lock, proc, kills,
                   waits, call, cmds>>

\* RunEvent::Exit => stop_hyperion_server(&process_state.0)
ExitEvent ==
    /\ phase = "running"
    /\ pc["main"] = "loop"
    /\ phase' = "exiting"
    /\ pc' = [pc EXCEPT !["main"] = "stop_lock"]
    /\ call' = BeginStop("main")
    /\ UNCHANGED <<cmd, log, discarded, probe, mode, windows, env, local, ret, cell, lock, proc, kills,
                   waits, cmds>>

\* The host starts over after the Exit handler instead of ending.
ExitReturnRestart ==
    /\ phase = "exiting"
    /\ pc["main"] = "stop_ret"
    /\ phase' = IF \E p \in Pids : proc[p] = "unborn" THEN "setup" ELSE "exited"
    /\ pc' = [pc EXCEPT !["main"] =
                IF \E p \in Pids : proc[p] = "unborn" THEN "setup_begin" ELSE "dead"]
    /\ UNCHANGED <<cmd, log, discarded, probe, mode, windows, env, local, ret, cell, lock, proc, kills,
                   waits, call, cmds>>

\* The Exit handler returned: the host process ends.
ExitReturn ==
    /\ phase = "exiting"
    /\ pc["main"] = "stop_ret"
    /\ phase' = "exited"
    /\ pc' = [pc EXCEPT !["main"] = "dead"]
    /\ UNCHANGED <<cmd, log, discarded, probe, mode, windows, env, local, ret, cell, lock, proc, kills,
                   waits, call, cmds>>

\* ------------------------------------------------------------------ Spec
InitCommon ==
    /\ mode \in {"Development", "Packaged"}
    /\ windows \in BOOLEAN
    /\ env \in Envs
    /\ local = [t \in Threads |-> NoChild]
    /\ ret = [t \in Threads |-> NoResult]
    /\ cell = NoChild
    /\ lock = "free"
    /\ proc = [p \in Pids |-> "unborn"]
    /\ kills = [p \in Pids |-> 0]
    /\ waits = [p \in Pids |-> 0]
    /\ call = [t \in Threads |-> NoCall]
    /\ cmds = [c \in CmdIds |-> IdleCmd]
    /\ cmd = [t \in Threads |-> NoCommand]
    /\ log = {}
    /\ discarded = {}
    /\ probe = NoProbe

\* main(): .manage(HyperionProcess(Mutex::new(None))), the hooks registered.
Init ==
    /\ InitCommon
    /\ phase = "built"
    /\ pc = [t \in Threads |-> IF t = "main" THEN "boot" ELSE "idle"]

Next ==
    \/ Ready
    \/ SetupBegin("main")
    \/ StartResolve("main")
    \/ StartExists("main")
    \/ StartEnv("main")
    \/ StartSpawn("main")
    \/ SetupMatch("main")
    \/ SetupStore("main")
    \/ SetupSleep("main")
    \/ SetupFinish
    \/ SetupAbort
    \/ WindowEvent
    \/ ExitEvent
    \/ StopLock("main")
    \/ StopTake("main")
    \/ StopKill("main")
    \/ StopWait("main")
    \/ StopUnlock("main")
    \/ ExitReturn
    \/ \E p \in Pids : ChildExits(p)
    \/ \E c \in CmdIds : CmdGetServerUrl(c)
    \/ \E c \in CmdIds, name \in CommandNames : CmdInvoke(c, name)
    \/ \E c \in CmdIds, r \in HttpOutcomes : CmdComplete(c, r)

Spec == Init /\ [][Next]_vars

\* ------------------------------------------------------------------ SpecApi
\* A thread calls stop.
ApiCallStop(t) ==
    /\ pc[t] = "idle"
    /\ call[t].n < MaxStopCalls
    /\ pc' = [pc EXCEPT ![t] = "stop_lock"]
    /\ call' = BeginStop(t)
    /\ UNCHANGED <<cmd, log, discarded, probe, mode, windows, env, phase, local, ret, cell, lock, proc,
                   kills, waits, cmds>>

\* Its call returns.
ApiStopReturn(t) ==
    /\ pc[t] = "stop_ret"
    /\ pc' = [pc EXCEPT ![t] = "idle"]
    /\ UNCHANGED <<cmd, log, discarded, probe, mode, windows, env, phase, local, ret, cell, lock, proc,
                   kills, waits, call, cmds>>

\* One thread is about to run start (start_hyperion_server, then the store);
\* the others may call stop at any moment.
InitApi ==
    /\ InitCommon
    /\ phase = "api"
    /\ pc = [t \in Threads |-> IF t = "main" THEN "start_resolve" ELSE "idle"]

NextApi ==
    \/ StartResolve("main")
    \/ StartExists("main")
    \/ StartEnv("main")
    \/ StartSpawn("main")
    \/ SetupMatch("main")
    \/ SetupStore("main")
    \/ SetupSleep("main")
    \/ \E t \in Stoppers : ApiCallStop(t)
    \/ \E t \in Stoppers : StopLock(t)
    \/ \E t \in Stoppers : StopTake(t)
    \/ \E t \in Stoppers : StopKill(t)
    \/ \E t \in Stoppers : StopWait(t)
    \/ \E t \in Stoppers : StopUnlock(t)
    \/ \E t \in Stoppers : ApiStopReturn(t)
    \/ \E p \in Pids : ChildExits(p)

SpecApi == InitApi /\ [][NextApi]_vars


\* ------------------------------------------------------------------ SpecCmd
\* The command surface of the running application in development mode (the
\* backend is somebody else's process), against a backend that answers with any
\* status of a wider set.
StatusesWide == {100, 199, 200, 204, 299, 300, 404, 500}
HttpOutcomesWide ==
    {TransportError} \cup [sent : {TRUE}, status : StatusesWide, json : BOOLEAN]

DeveloperCheckout ==
    [cwd |-> Ok(CwdRepo), res |-> NotResolvable, fs |-> Binaries \cup Configs]

InitCmd ==
    /\ InitCommon
    /\ mode = "Development"
    /\ env = DeveloperCheckout
    /\ phase = "running"
    /\ pc = [t \in Threads |-> IF t = "main" THEN "loop" ELSE "idle"]

NextCmd ==
    \/ \E c \in CmdIds : CmdGetServerUrl(c)
    \/ \E c \in CmdIds, name \in CommandNames : CmdInvoke(c, name)
    \/ \E c \in CmdIds, r \in HttpOutcomesWide : CmdComplete(c, r)

SpecCmd == InitCmd /\ [][NextCmd]_vars

\* ------------------------------------------------------------------ SpecFn
\* The argument builders and the path functions applied to inputs of small
\* sets; probe holds the last application.

\* Option<T>
None == [some |-> FALSE, val |-> "None"]
Some(v) == [some |-> TRUE, val |-> v]

\* serde_json::json!({}) and args["key"] = value
EmptyObject == [k \in {} |-> "null"]
SetKey(obj, key, val) == (key :> val) @@ obj
\* if let Some(x) = param { args["key"] = x }
SetIfSome(obj, key, opt) == IF opt.some THEN SetKey(obj, key, opt.val) ELSE obj

\* The payload call_mcp_tool posts: json!({"name": name, "arguments": arguments})
Payload(name, arguments) == [name |-> name, arguments |-> arguments]

\* create_human_task
create_human_task(prompt) ==
    Payload("coordinator_create_human_task", SetKey(EmptyObject, "prompt", prompt))

\* create_agent_task
create_agent_task(human_task_id, agent_name, role, context_summary, files_modified, todos) ==
    Payload("coordinator_create_agent_task",
            SetIfSome(SetIfSome(SetIfSome(
                SetKey(SetKey(SetKey(EmptyObject, "humanTaskId", human_task_id),
                              "agentName", agent_name), "role", role),
                "contextSummary", context_summary),
                "filesModified", files_modified),
                "todos", todos))

\* list_human_tasks
list_human_tasks == Payload("coordinator_list_human_tasks", EmptyObject)

\* Both keys are always written, null standing for an absent parameter.
list_agent_tasks_nulls(agent_name, human_task_id) ==
    Payload("coordinator_list_agent_tasks",
            SetKey(SetKey(EmptyObject, "agentName",
                          IF agent_name.some THEN agent_name.val ELSE "null"),
                   "humanTaskId",
                   IF human_task_id.some THEN human_task_id.val ELSE "null"))

\* list_agent_tasks
list_agent_tasks(agent_name, human_task_id) ==
    Payload("coordinator_list_agent_tasks",
            SetIfSome(SetIfSome(EmptyObject, "agentName", agent_name),
                      "humanTaskId", human_task_id))

\* update_task_status
update_task_status(task_id, status, notes) ==
    Payload("coordinator_update_task_status",
            SetIfSome(SetKey(SetKey(EmptyObject, "taskId", task_id),
                             "status", status),
                      "notes", notes))

\* upsert_knowledge
upsert_knowledge(collection, text, metadata) ==
    Payload("coordinator_upsert_knowledge",
            SetIfSome(SetKey(SetKey(EmptyObject, "collection", collection),
                             "text", text),
                      "metadata", metadata))

\* query_knowledge
query_knowledge(collection, query, limit) ==
    Payload("coordinator_query_knowledge",
            SetIfSome(SetKey(SetKey(EmptyObject, "collection", collection),
                             "query", query),
                      "limit", limit))

\* The values the parameters are drawn from: strings (the empty one too),
\* lists (the empty one too), JSON objects, numbers.
Strings == {"", "t1"}
OptStrings == {None} \cup {Some(v) : v \in Strings}
OptLists == {None, Some(<< >>), Some(<<"a.rs">>)}
OptObjects == {None, Some(EmptyObject), Some(SetKey(EmptyObject, "k", "v"))}
OptLimits == {None, Some(0), Some(5)}

\* The frame of an application: nothing of the application moves.
appVars == <<mode, windows, env, phase, pc, local, ret, cell, lock, proc, kills,
             waits, call, cmds, cmd, log, discarded>>

Application(fn, in, out) == [fn |-> fn, in |-> in, out |-> out]

ApplyCreateHumanTask ==
    \E p \in Strings :
        /\ probe' = Application("create_human_task", [prompt |-> Some(p)], create_human_task(p))
        /\ UNCHANGED appVars

ApplyCreateAgentTask ==
    \E h \in {"h1"}, a \in {"agent"}, r \in {"role"},
       cs \in OptStrings, fm \in OptLists, td \in OptLists :
        /\ probe' = Application("create_agent_task",
                              [humanTaskId |-> Some(h), agentName |-> Some(a), role |-> Some(r),
                               contextSummary |-> cs, filesModified |-> fm, todos |-> td],
                              create_agent_task(h, a, r, cs, fm, td))
        /\ UNCHANGED appVars

ApplyListHumanTasks ==
    /\ probe' = Application("list_human_tasks", EmptyObject, list_human_tasks)
    /\ UNCHANGED appVars

ApplyListAgentTasks ==
    \E a \in OptStrings, h \in OptStrings :
        /\ probe' = Application("list_agent_tasks", [agentName |-> a, humanTaskId |-> h],
                              list_agent_tasks(a, h))
        /\ UNCHANGED appVars

ApplyUpdateTaskStatus ==
    \E id \in Strings, st \in {"completed"}, n \in OptStrings :
        /\ probe' = Application("update_task_status",
                              [taskId |-> Some(id), status |-> Some(st), notes |-> n],
                              update_task_status(id, st, n))
        /\ UNCHANGED appVars

ApplyUpsertKnowledge ==
    \E c \in {"notes"}, t \in Strings, m \in OptObjects :
        /\ probe' = Application("upsert_knowledge",
                              [collection |-> Some(c), text |-> Some(t), metadata |-> m],
                              upsert_knowledge(c, t, m))
        /\ UNCHANGED appVars

ApplyQueryKnowledge ==
    \E c \in {"notes"}, q \in Strings, l \in OptLimits :
        /\ probe' = Application("query_knowledge",
                              [collection |-> Some(c), query |-> Some(q), limit |-> l],
                              query_knowledge(c, q, l))
        /\ UNCHANGED appVars

ApplyPaths ==
    \E m \in {"Development", "Packaged"}, win \in BOOLEAN, e \in Envs :
        /\ probe' = Application("paths", [mode |-> m, windows |-> win, env |-> e],
                              [binary |-> get_hyper_binary_path(m, win, e),
                               config |-> get_env_path(m, win, e)])
        /\ UNCHANGED appVars

InitFn ==
    /\ InitCommon
    /\ mode = "Development"
    /\ env = DeveloperCheckout
    /\ phase = "fn"
    /\ pc = [t \in Threads |-> "idle"]

NextFn ==
    \/ ApplyCreateHumanTask
    \/ ApplyCreateAgentTask
    \/ ApplyListHumanTasks
    \/ ApplyListAgentTasks
    \/ ApplyUpdateTaskStatus
    \/ ApplyUpsertKnowledge
    \/ ApplyQueryKnowledge
    \/ ApplyPaths

SpecFn == InitFn /\ [][NextFn]_vars

\* ------------------------------------------------------------------ claims
StartFailures == {"NotResolvable", "BinaryNotFound", "SpawnFailed"}
\* The thread has called start and is past its existence check.
PastExistsCheck(t) ==
    \/ pc[t] \in {"start_env", "start_spawn", "start_ret"}
    \/ ret[t] # NoResult

\* C1: in every reachable state of the application at most one backend process
\* is spawned and not yet reaped, and the cell holds nothing or one process.
C1_AtMostOneLive ==
    /\ Cardinality(Live) <= 1
    /\ cell \in {NoChild} \cup Pids
    /\ cell # NoChild => Spawned = {cell}

C1_Witness ==
    /\ phase = "running"
    /\ cell # NoChild
    /\ proc[cell] = "alive"
    /\ \E c \in CmdIds : cmds[c].st = "inflight"

\* C2: once the application has ended, on whichever path, every process that
\* was spawned has been reaped; and the exit event's path went through stop.
C2_ExitReaps ==
    /\ phase \in {"exited", "aborted"} => \A p \in Spawned : proc[p] = "reaped"
    /\ phase = "exited" => call["main"].n = 1

C2_Witness ==
    /\ phase = "exited"
    /\ Spawned # {}
    /\ \A p \in Spawned : kills[p] = 1 /\ proc[p] = "reaped"

\* C3: after start has succeeded (the child spawned and stored) and until stop
\* takes it, the cell holds the process just spawned and no other exists;
\* after stop has completed the cell is empty and that process is reaped.
C3_StartStoresStopClears ==
    /\ (ret["main"].tag = "Ok" /\ pc["main"] \in {"setup_sleep", "setup_done", "loop"})
          => /\ cell # NoChild
             /\ Spawned = {cell}
             /\ proc[cell] \in {"alive", "zombie"}
    /\ (call["main"].n >= 1 /\ pc["main"] \in {"stop_ret", "dead"})
          => /\ cell = NoChild
             /\ \A p \in Spawned : proc[p] = "reaped" /\ waits[p] = 1

C3_Witness ==
    /\ pc["main"] = "stop_ret"
    /\ ret["main"].tag = "Ok"
    /\ cell = NoChild
    /\ proc[1] = "reaped"

\* C4: a stop call that begins after the child has been spawned does not
\* return while that process is still there.
C4_StopAfterSpawnReaps ==
    \A t \in Stoppers :
        pc[t] = "stop_ret" => \A p \in call[t].began : proc[p] = "reaped"

\* C5: a stop that finds the cell empty sends no kill, waits for nothing,
\* leaves the cell empty and returns normally; and every stop leaves the cell
\* empty when it releases the lock, so a second stop in succession is that no-op.
C5_StopIdempotent ==
    [][\A t \in Threads :
         /\ (pc[t] = "stop_take" /\ cell = NoChild /\ pc'[t] # "stop_take")
               => /\ pc'[t] = "stop_unlock"
                  /\ local'[t] = NoChild
                  /\ cell' = NoChild
                  /\ UNCHANGED <<proc, kills, waits>>
         /\ (pc[t] = "stop_unlock" /\ pc'[t] # "stop_unlock")
               => /\ pc'[t] = "stop_ret"
                  /\ lock' = "free"
                  /\ cell = NoChild /\ cell' = NoChild
                  /\ UNCHANGED <<proc, kills, waits>>
      ]_vars

C5_Witness ==
    /\ call["s1"].n = 2
    /\ call["s1"].empty
    /\ pc["s1"] = "stop_ret"
    /\ call["s2"].n = 0
    /\ kills[1] = 1
    /\ waits[1] = 1

\* C6: when the resolved binary path is not on disk, start returns
\* BinaryNotFound with that path, nothing is spawned and the cell is untouched;
\* and BinaryNotFound is returned in no other case.
C6_BinaryNotFound ==
    LET b == get_hyper_binary_path(mode, windows, env) IN
    /\ (b.ok /\ ~Exists(env, b.path) /\ PastExistsCheck("main"))
          => /\ ret["main"] = ErrBinaryNotFound(b.path)
             /\ Spawned = {}
             /\ cell = NoChild
    /\ ret["main"].tag = "BinaryNotFound"
          => b.ok /\ ~Exists(env, b.path) /\ ret["main"].path = b.path

C6_Witness ==
    /\ ret["main"].tag = "BinaryNotFound"
    /\ ret["main"].path = <<"app", "resources", "hyper.exe">>
    /\ pc["main"] = "setup_err"

\* C7: if start fails in the setup hook, the application is still in setup or
\* has aborted, it serves no command, the cell is empty and no process exists.
C7_StartupFailureAborts ==
    ret["main"].tag \in StartFailures
       => /\ phase \in {"setup", "aborted"}
          /\ pc["main"] \in {"start_ret", "setup_err", "dead"}
          /\ cell = NoChild
          /\ Spawned = {}
          /\ \A c \in CmdIds : cmds[c] = IdleCmd

C7_Witness ==
    /\ phase = "aborted"
    /\ ret["main"].tag = "SpawnFailed"

\* C8: the cell becomes non-empty only in setup, before any stop, with the one
\* process spawned; a stored value changes only by stop emptying the cell; and
\* once stop has been called nothing is spawned and an empty cell stays empty.
C8_Lifecycle ==
    [][/\ (cell = NoChild /\ cell' # NoChild)
             => call["main"].n = 0 /\ phase = "setup" /\ Spawned' = {cell'}
       /\ (cell # NoChild /\ cell' # cell)
             => cell' = NoChild /\ pc["main"] = "stop_take"
       /\ call["main"].n >= 1
             => Spawned' = Spawned /\ (cell = NoChild => cell' = NoChild)
      ]_vars

C8_Witness ==
    /\ phase = "exited"
    /\ call["main"].n = 1
    /\ ~call["main"].empty
    /\ cell = NoChild
    /\ \E c \in CmdIds : cmds[c].result.ok

\* C9: start is invoked by setup in packaged mode only (in development nothing
\* is ever spawned and the cell stays empty), and in both modes the exit event
\* calls stop.
C9_ModeHooks ==
    /\ mode = "Development"
          => ret["main"] = NoResult /\ Spawned = {} /\ cell = NoChild
    /\ (mode = "Packaged" /\ phase \in {"running", "exiting", "exited"})
          => ret["main"].tag = "Ok"
    /\ phase \in {"exiting", "exited"} => call["main"].n = 1

C9_Witness ==
    /\ mode = "Development"
    /\ phase = "exited"
    /\ call["main"].empty

\* C10: a step of a command, whatever its outcome, changes nothing but that
\* command's own slot: the cell, the lock, the processes, the host's phase and
\* the other commands stay as they are; and a finished command holds a result.
C10_CommandsLeaveSupervisor ==
    [][cmds' # cmds
         => /\ UNCHANGED <<cell, lock, proc, kills, waits, local, pc, phase>>
            /\ \E c \in CmdIds :
                 /\ \A d \in CmdIds \ {c} : cmds'[d] = cmds[d]
                 /\ cmds'[c].st = "idle" => cmds'[c].result # NoCmdResult
      ]_vars

C10_Witness ==
    /\ phase = "running"
    /\ cell # NoChild
    /\ proc[cell] = "alive"
    /\ \E c, d \in CmdIds :
         /\ cmds[c].result.tag = "Failed to call MCP tool"
         /\ cmds[d].st = "inflight"


\* The slots in which call_mcp_tool (called directly or by a wrapper) has
\* returned.
ToolReturned == {c \in CmdIds : cmds[c].st = "idle" /\ cmds[c].fn = "call_mcp_tool"}

InSuccessRange(st) == st \in 200..299

JsonValue == [ok |-> TRUE, tag |-> "json", status |-> 0]
ToolCallFailed(st) == [ok |-> FALSE, tag |-> "MCP tool call failed", status |-> st]
TransportFailed == [ok |-> FALSE, tag |-> "Failed to call MCP tool", status |-> 0]
DecodeFailed == [ok |-> FALSE, tag |-> "decode error", status |-> 0]

\* C11 as stated: one exchange per invocation, and the outcome is one of
\* three: the JSON body on a success status, ToolCallFailed with the status on
\* another status, TransportFailed on a transport failure.
C11_ThreeOutcomes ==
    /\ \A c \in CmdIds : cmds[c].fn = "call_mcp_tool" => cmds[c].n = 1
    /\ \A c \in ToolReturned :
         LET r == cmds[c].resp  res == cmds[c].result IN
         \/ r.sent /\ InSuccessRange(r.status) /\ res = JsonValue
         \/ r.sent /\ ~InSuccessRange(r.status) /\ res = ToolCallFailed(r.status)
         \/ ~r.sent /\ res = TransportFailed

\* C11 (amended): one exchange per invocation and no retry; the outcome is one
\* of four: on a success status the body as a JSON value when it decodes and
\* the decoding error as a failure when it does not; ToolCallFailed with the
\* status on another status; TransportFailed on a transport failure.
C11_FourOutcomes ==
    /\ \A c \in CmdIds : cmds[c].fn = "call_mcp_tool" => cmds[c].n = 1
    /\ \A c \in ToolReturned :
         LET r == cmds[c].resp  res == cmds[c].result IN
         \/ r.sent /\ InSuccessRange(r.status) /\ r.json /\ res = JsonValue
         \/ r.sent /\ InSuccessRange(r.status) /\ ~r.json /\ res = DecodeFailed
         \/ r.sent /\ ~InSuccessRange(r.status) /\ res = ToolCallFailed(r.status)
         \/ ~r.sent /\ res = TransportFailed

C11_Witness ==
    \E c, d \in CmdIds :
        /\ c # d
        /\ c \in ToolReturned /\ cmds[c].result = DecodeFailed
        /\ d \in ToolReturned /\ cmds[d].result = ToolCallFailed(404)


Healthy == [ok |-> TRUE, tag |-> "healthy", status |-> 0]
Unhealthy(st) == [ok |-> FALSE, tag |-> "Server returned status", status |-> st]
RequestFailed == [ok |-> FALSE, tag |-> "Health check failed", status |-> 0]

\* C12: check_server_health sends one request; it returns "healthy" exactly
\* when a response came with a status in 200..299, the Unhealthy error with the
\* status for any other status, and the distinct RequestFailed error when no
\* response came.
C12_HealthOutcomes ==
    \A c \in CmdIds :
        cmds[c].fn = "check_server_health" =>
          /\ cmds[c].n = 1
          /\ cmds[c].st = "idle" =>
               LET r == cmds[c].resp  res == cmds[c].result IN
               /\ res = Healthy <=> (r.sent /\ InSuccessRange(r.status))
               /\ (r.sent /\ ~InSuccessRange(r.status)) => res = Unhealthy(r.status)
               /\ ~r.sent => res = RequestFailed
               /\ RequestFailed.tag # Unhealthy(r.status).tag

C12_Witness ==
    \E c, d \in CmdIds :
        /\ cmds[c].st = "idle" /\ cmds[c].result = Unhealthy(500)
        /\ cmds[d].st = "idle" /\ cmds[d].result = Healthy /\ cmds[d].resp.status = 204


Wrappers ==
    {"create_human_task", "create_agent_task", "list_human_tasks",
     "list_agent_tasks", "update_task_status", "upsert_knowledge",
     "query_knowledge"}

\* The parameters given to the last application that are present.
PresentParams == {k \in DOMAIN probe.in : probe.in[k].some}

\* C13: the arguments object of every wrapper has exactly the keys of the
\* parameters that are present (the required ones always are), each with the
\* value given, and no key for an absent one.
C13_OnlyPresentKeys ==
    probe.fn \in Wrappers =>
       /\ DOMAIN probe.out.arguments = PresentParams
       /\ \A k \in PresentParams : probe.out.arguments[k] = probe.in[k].val
       /\ (probe.fn = "create_agent_task"
             /\ ~probe.in.contextSummary.some /\ ~probe.in.filesModified.some
             /\ ~probe.in.todos.some)
            => DOMAIN probe.out.arguments = {"humanTaskId", "agentName", "role"}
       /\ (probe.fn = "list_agent_tasks" /\ probe.in.agentName = None
             /\ probe.in.humanTaskId = Some("t1"))
            => probe.out.arguments = SetKey(EmptyObject, "humanTaskId", "t1")

C13_Witness ==
    /\ probe.fn = "list_agent_tasks"
    /\ probe.in.agentName = None
    /\ probe.in.humanTaskId = Some("t1")
    /\ DOMAIN probe.out.arguments = {"humanTaskId"}

\* The directory above p.
Parent(p) == SubSeq(p, 1, Len(p) - 1)

\* C14: in development the binary is <parent of cwd>/bin/hyper, with .exe on
\* Windows, and the config <parent of cwd>/bin/.env.hyper; packaged, the binary
\* is <resource dir>/hyper.exe on Windows and <resource dir>/hyper elsewhere and
\* the config <resource dir>/.env.hyper; resolution fails only when the cwd
\* (development) or the resource directory (packaged) cannot be obtained.
C14_PathsAsSpecified ==
    probe.fn = "paths" =>
       LET i == probe.in
           o == probe.out
           exe == IF i.windows THEN "hyper.exe" ELSE "hyper"
           base == IF i.mode = "Development"
                   THEN Parent(i.env.cwd.path) \o <<"bin">>
                   ELSE i.env.res.path
           obtained == IF i.mode = "Development" THEN i.env.cwd.ok ELSE i.env.res.ok
       IN /\ o.binary.ok = obtained
          /\ o.config.ok = obtained
          /\ obtained => /\ o.binary.path = base \o <<exe>>
                         /\ o.config.path = base \o <<".env.hyper">>

\* start looked for the config file where it belongs and did not find it.
ConfigAbsent ==
    /\ get_env_path(mode, windows, env).ok
    /\ ~Exists(env, get_env_path(mode, windows, env).path)

\* C15: no error of a collaborator is dropped without a trace: each one is
\* returned to the caller or logged; the absent config file is the one
\* condition that is not an error, and it is logged.
C15_NoErrorSwallowed ==
    /\ discarded = {}
    /\ (cmd["main"] # NoCommand /\ ConfigAbsent)
          => "Warning: .env.hyper not found" \in log

\* The installation with the config files in place, and without them.
WithConfig(e) == [e EXCEPT !.fs = @ \cup Configs]
WithoutConfig(e) == [e EXCEPT !.fs = @ \ Configs]

\* What start returns in environment e when the spawn goes as told.
StartResult(e, spawned) ==
    LET b == get_hyper_binary_path(mode, windows, e) IN
    IF ~b.ok THEN ErrNotResolvable
    ELSE IF ~Exists(e, b.path) THEN ErrBinaryNotFound(b.path)
    ELSE IF spawned THEN StartOk ELSE ErrSpawnFailed

\* C16: the result of start and the command line it launches are those of the
\* same installation with the config file and without it: the command is the
\* resolved binary path with the one argument --mode=http, and the result is
\* decided by the binary path and the spawn outcome alone.
C16_ConfigMakesNoDifference ==
    \A e \in {WithConfig(env), WithoutConfig(env)} :
       /\ cmd["main"] # NoCommand =>
             cmd["main"] = <<get_hyper_binary_path(mode, windows, e).path,
                             "--mode=http">>
       /\ ret["main"] # NoResult =>
             /\ \E spawned \in BOOLEAN : ret["main"] = StartResult(e, spawned)
             /\ ret["main"] = StartOk <=> "started with PID" \in log
       /\ ret["main"].tag \in {"Ok", "SpawnFailed"} => cmd["main"] # NoCommand

\* start succeeded although the config file is not there, and said so.
C16_Witness ==
    /\ ret["main"] = StartOk
    /\ ConfigAbsent
    /\ "Warning: .env.hyper not found" \in log
    /\ Len(cmd["main"]) = 2

\* The labels at which a stop call is between its take and its unlock.
InStop == {"stop_take", "stop_kill", "stop_wait", "stop_unlock"}

\* C17: a stop call holds the lock from the take until kill and wait are done;
\* no process is killed or waited for twice, nor held by two stop calls; and a
\* stop call that has returned finds every process the supervisor held when the
\* call began exited and reaped, whether it took the process itself or found
\* the cell empty.
C17_StopsSerialised ==
    /\ \A t \in Threads : pc[t] \in InStop => lock = t
    /\ \A p \in Pids : kills[p] <= 1 /\ waits[p] <= 1
    /\ \A p \in Pids :
          Cardinality({t \in Threads : pc[t] \in InStop /\ local[t] = p}) <= 1
    /\ \A t \in Threads :
          pc[t] = "stop_ret" => \A p \in call[t].held : proc[p] = "reaped"

\* Two stop calls overlapped: one took and reaped the process, the other began
\* while the process was still held, found the cell empty, and both returned.
C17_Witness ==
    /\ \A t \in Stoppers : pc[t] = "stop_ret"
    /\ \E t, u \in Stoppers :
          /\ ~call[t].empty
          /\ call[u].empty
          /\ call[u].held # {}
          /\ \A p \in call[u].held : kills[p] = 1 /\ waits[p] = 1

\* C18: stop never stays in its wait, whatever the stored process does and
\* whether or not the kill got through, and once it has returned the lock is
\* released and the cell is empty.
C18_StopAlwaysReturns ==
    \A t \in Threads :
       /\ pc[t] = "stop_wait" => proc[local[t]] \in {"zombie", "reaped"}
       /\ pc[t] = "stop_ret" => lock # t /\ cell = NoChild

====
